---- MODULE Spec2Model ----
(***************************************************************************)
(* State-machine model of strung's finding-tracking engine: the SQLite     *)
(* tracking store (pkg/db/tracking.go), the Differ (pkg/sync/diff.go) and  *)
(* the sync orchestrator (cmd/strung/sync.go) driving the external issue   *)
(* tracker CLI (cmd/strung/actions.go).                                    *)
(*                                                                         *)
(* Go strings that the code takes apart (file, category, message, code     *)
(* snippet) are sequences of one-character strings.  Severities are only   *)
(* compared, so they stay TLA+ strings.  Timestamps are positive integers  *)
(* and SQL NULL in the resolved_at column is the value NULL.               *)
(***************************************************************************)
EXTENDS Integers, Sequences, FiniteSets, TLC

\* ------------------------------------------------------------------ bounds
\* longest scan (number of findings on stdin) a sync run is given
MaxScanLen == 2
\* number of sync runs with fresh flags and stdin in a behaviour of Spec and
\* SpecSync
MaxRuns == 2
\* number of sync runs that repeat the run before them, which end a behaviour
\* of SpecSync
MaxReruns == 1
\* number of sync runs in a behaviour of SpecRepeat (one finding, many scans)
MaxRepeatRuns == 5
\* timestamps a caller of the store API may pass (1..MaxTime)
MaxTime == 2
\* number of direct store API calls in a behaviour of Spec
MaxApiCalls == 2
\* number of store API calls in a behaviour of SpecStore
MaxStoreCalls == 3
\* number of sync runs in a behaviour of SpecFingerprint
MaxFingerprintRuns == 1
\* number of calls (operation log API, Store, recover) in a behaviour of SpecLog
MaxLogCalls == 3
\* number of sync runs, of both processes together, in a behaviour of SpecConcurrent
MaxConcurrentRuns == 2
\* number of sync invocations with a fresh scan in a behaviour of SpecLive,
\* before the same invocation is repeated for ever
MaxLiveSetupRuns == 2
\* the time after which the clock of SpecLive no longer advances
MaxLiveTime == 3
\* number of Transaction method calls in a behaviour of SpecTransaction
MaxTxnCalls == 4

\* -------------------------------------------------------- program constants
ExitSyncSuccess == 0
ExitSyncInputError == 1
ExitSyncUsageError == 2
ExitSyncError == 3
PriorityCritical == 0
PriorityHigh == 1
PriorityMedium == 2

\* resolved_at IS NULL / a nil *time.Time
NULL == 0
\* a nil *Finding
NoFinding == [Fingerprint |-> <<>>, IssueID |-> <<>>, File |-> <<>>, Line |-> 0,
              Severity |-> "", Category |-> <<>>, Message |-> <<>>,
              FirstSeen |-> 0, LastSeen |-> 0, ResolvedAt |-> NULL]

\* ------------------------------------------------------------ string helpers
UpperCase == <<"A","B","C","D","E","F","G","H","I","J","K","L","M",
               "N","O","P","Q","R","S","T","U","V","W","X","Y","Z">>
LowerCase == <<"a","b","c","d","e","f","g","h","i","j","k","l","m",
               "n","o","p","q","r","s","t","u","v","w","x","y","z">>

\* unicode.ToLower on one (ASCII) character
ToLowerChar(c) ==
  IF \E i \in DOMAIN UpperCase : UpperCase[i] = c
  THEN LowerCase[CHOOSE i \in DOMAIN UpperCase : UpperCase[i] = c]
  ELSE c

\* strings.ToLower
ToLower(s) == [i \in DOMAIN s |-> ToLowerChar(s[i])]

\* unicode.IsSpace (ASCII white space)
IsSpace(c) == c \in {" ", "\t", "\n", "\r"}

RECURSIVE TrimLeft(_)
TrimLeft(s) == IF s # <<>> /\ IsSpace(Head(s)) THEN TrimLeft(Tail(s)) ELSE s

RECURSIVE TrimRight(_)
TrimRight(s) ==
  IF s # <<>> /\ IsSpace(s[Len(s)]) THEN TrimRight(SubSeq(s, 1, Len(s) - 1)) ELSE s

\* strings.TrimSpace
TrimSpace(s) == TrimRight(TrimLeft(s))

\* strings.Split(s, sep) for a one-character separator: a sequence of strings
RECURSIVE Split(_, _)
Split(s, sep) ==
  IF \E i \in DOMAIN s : s[i] = sep
  THEN LET k == CHOOSE i \in DOMAIN s : s[i] = sep /\ \A j \in 1..(i - 1) : s[j] # sep
       IN  <<SubSeq(s, 1, k - 1)>> \o Split(SubSeq(s, k + 1, Len(s)), sep)
  ELSE <<s>>

\* strings.Fields: the maximal runs of non-space characters
RECURSIVE Fields(_)
Fields(s) ==
  LET t == TrimLeft(s)
  IN  IF t = <<>> THEN <<>>
      ELSE LET n == IF \E i \in DOMAIN t : IsSpace(t[i])
                    THEN (CHOOSE i \in DOMAIN t :
                            IsSpace(t[i]) /\ \A j \in 1..(i - 1) : ~IsSpace(t[j])) - 1
                    ELSE Len(t)
           IN  <<SubSeq(t, 1, n)>> \o Fields(SubSeq(t, n + 1, Len(t)))

\* strings.Join(parts, sep)
RECURSIVE Join(_, _)
Join(parts, sep) ==
  IF parts = <<>> THEN <<>>
  ELSE IF Len(parts) = 1 THEN parts[1]
  ELSE parts[1] \o sep \o Join(Tail(parts), sep)

Digits == <<"0","1","2","3","4","5","6","7","8","9">>

RECURSIVE NatToStr(_)
NatToStr(n) == IF n < 10 THEN <<Digits[n + 1]>>
               ELSE NatToStr(n \div 10) \o <<Digits[(n % 10) + 1]>>

\* fmt's %d verb
Itoa(n) == IF n < 0 THEN <<"-">> \o NatToStr(0 - n) ELSE NatToStr(n)

\* keep the elements of a sequence that satisfy a test
RECURSIVE DropEmpty(_)
DropEmpty(ls) ==
  IF ls = <<>> THEN <<>>
  ELSE IF Head(ls) # <<>> THEN <<Head(ls)>> \o DropEmpty(Tail(ls))
  ELSE DropEmpty(Tail(ls))

\* ------------------------------------------------------------- fingerprint
\* one line of the snippet: TrimSpace, ToLower, Join(Fields(line), " ")
NormalizeLine(line) == Join(Fields(ToLower(TrimSpace(line))), <<" ">>)

\* first 3 + last 3 lines, normalized, empty lines dropped, joined by "|"
normalizeCodeContext(snippet) ==
  LET lines == Split(snippet, "\n")
      selected == IF Len(lines) <= 6 THEN lines
                  ELSE SubSeq(lines, 1, 3) \o SubSeq(lines, Len(lines) - 2, Len(lines))
      normalized == DropEmpty([i \in DOMAIN selected |-> NormalizeLine(selected[i])])
  IN  Join(normalized, <<"|">>)

\* bug variant: the line-based string whether or not there is a snippet
PreHashAlwaysLine(file, category, message, codeSnippet, line) ==
  file \o <<":">> \o Itoa(line) \o <<":">> \o category \o <<":">> \o message

\* the string written into the hash
PreHash(file, category, message, codeSnippet, line) ==
  IF codeSnippet # <<>>
  THEN file \o <<":">> \o category \o <<":">> \o message \o <<":">>
            \o normalizeCodeContext(codeSnippet)
  ELSE file \o <<":">> \o Itoa(line) \o <<":">> \o category \o <<":">> \o message

\* SHA-256 in hex, idealised as collision free: the digest stands for its input
Sha256Hex(s) == <<"sha256">> \o s

\* len() of a fingerprint string: a digest prints as 64 hex characters, any
\* other string is as long as it is
HexDigestLen == 64
FingerprintLen(fp) == IF fp # <<>> /\ Head(fp) = "sha256" THEN HexDigestLen ELSE Len(fp)

\* the error paths of the store format fingerprint[:12]
ErrPrefixLen == 12
\* fingerprint[:12] is a slice out of range: a run-time panic
SlicePanics(fp) == FingerprintLen(fp) < ErrPrefixLen

ComputeFingerprint(file, category, message, codeSnippet, line) ==
  Sha256Hex(PreHash(file, category, message, codeSnippet, line))

\* the fingerprint of a scanner finding, as Diff and executeActions compute it
FindingFP(f) == ComputeFingerprint(f.File, f.Category, f.Message, f.CodeSnippet, f.Line)

\* ------------------------------------------------------------------- state
VARIABLES
  findings,       \* the findings table: a set of rows
  operation_log,  \* the operation_log table: rows in id order
  tracker,        \* the external issue tracker: the issues created so far
  pc,             \* where the sync command is: idle, new, changed, resolved, done
  s,              \* the syncCmd flags of the current (or last) run
  input,          \* what the current (or last) run read from stdin
  result,         \* the DiffResult of the current (or last) run
  todo,           \* the items of result that executeActions has not reached yet
  now,            \* executeActions' now (0 before the first run)
  hasErrors,      \* executeActions' hasErrors
  exitCode,       \* exit code of the last finished run (-1: none yet)
  calls,          \* history: the tracker calls of the current run, in order
  fail,           \* history: the kinds of step that failed in the current run
  failedEver,     \* history: the kinds of step that failed in any run so far
  clock,          \* wall clock: the number of sync runs started
  reruns,         \* how many of them repeated the run before
  prev,           \* history: whether this run repeats the one before, and how that one went
  ret,            \* history: the last store API call and what it returned
  apiCalls,       \* number of direct store API calls made
  transaction,    \* the sync package's Transaction value
  other           \* the run state of a second strung process, while it is not running

vars == <<findings, operation_log, tracker, pc, s, input, result, todo, now,
          hasErrors, exitCode, calls, fail, failedEver, clock, reruns, prev, ret, apiCalls,
          transaction, other>>

runVars == <<pc, s, input, result, todo, now, hasErrors, exitCode, calls, fail,
             failedEver, clock, reruns>>

\* -------------------------------------------------------------- the store
\* the row INSERT writes for f (resolved_at is not in the column list: NULL)
InsertedRow(f) ==
  [fingerprint |-> f.Fingerprint, issue_id |-> f.IssueID, file |-> f.File,
   line |-> f.Line, severity |-> f.Severity, category |-> f.Category,
   message |-> f.Message, first_seen |-> f.FirstSeen, last_seen |-> f.LastSeen,
   resolved_at |-> NULL]

\* bug variant: the severity column is left out of the DO UPDATE SET list
ConflictUpdateKeepsSeverity(r, f) ==
  [r EXCEPT !.last_seen = f.LastSeen, !.resolved_at = NULL]

\* bug variant: first_seen = excluded.first_seen is in the DO UPDATE SET list
ConflictUpdateSetsFirstSeen(r, f) ==
  [r EXCEPT !.last_seen = f.LastSeen, !.severity = f.Severity, !.resolved_at = NULL,
            !.first_seen = f.FirstSeen]

\* bug variant: issue_id = excluded.issue_id is in the DO UPDATE SET list
ConflictUpdateSetsIssueID(r, f) ==
  [r EXCEPT !.last_seen = f.LastSeen, !.severity = f.Severity, !.resolved_at = NULL,
            !.issue_id = f.IssueID]

\* bug variant: resolved_at = NULL is left out of the DO UPDATE SET list
ConflictUpdateKeepsResolved(r, f) ==
  [r EXCEPT !.last_seen = f.LastSeen, !.severity = f.Severity]

\* ON CONFLICT(fingerprint) DO UPDATE SET last_seen, severity, resolved_at = NULL
ConflictUpdate(r, f) ==
  [r EXCEPT !.last_seen = f.LastSeen, !.severity = f.Severity, !.resolved_at = NULL]

\* bug variant: a plain INSERT into a table without the primary key
StoreRowsAlwaysInsert(rows, f) == rows \cup {InsertedRow(f)}

\* the findings table after Store's upsert of f
StoreRows(rows, f) ==
  IF \E r \in rows : r.fingerprint = f.Fingerprint
  THEN {IF r.fingerprint = f.Fingerprint THEN ConflictUpdate(r, f) ELSE r : r \in rows}
  ELSE rows \cup {InsertedRow(f)}

\* bug variant: first_seen and last_seen scanned into each other's field
ScanRowSwapsTimes(r) ==
  [Fingerprint |-> r.fingerprint, IssueID |-> r.issue_id, File |-> r.file,
   Line |-> r.line, Severity |-> r.severity, Category |-> r.category,
   Message |-> r.message, FirstSeen |-> r.last_seen, LastSeen |-> r.first_seen,
   ResolvedAt |-> r.resolved_at]

\* rows.Scan into a Finding: sql.NullTime becomes a nil or non-nil pointer
ScanRow(r) ==
  [Fingerprint |-> r.fingerprint, IssueID |-> r.issue_id, File |-> r.file,
   Line |-> r.line, Severity |-> r.severity, Category |-> r.category,
   Message |-> r.message, FirstSeen |-> r.first_seen, LastSeen |-> r.last_seen,
   ResolvedAt |-> r.resolved_at]

\* TrackingDB.Get: the row of that fingerprint, or nil
Get(rows, fingerprint) ==
  IF \E r \in rows : r.fingerprint = fingerprint
  THEN ScanRow(CHOOSE r \in rows : r.fingerprint = fingerprint)
  ELSE NoFinding

\* bug variant: the query has no WHERE clause
GetUnresolvedWithResolved(rows) == {ScanRow(r) : r \in rows}

\* TrackingDB.GetUnresolved: WHERE resolved_at IS NULL (as a set; Diff keys it
\* by fingerprint and does not use the ORDER BY)
GetUnresolved(rows) == {ScanRow(r) : r \in {q \in rows : q.resolved_at = NULL}}

\* bug variant: the UPDATE matches no row
MarkResolvedRowsNone(rows, fingerprint, resolvedAt) == rows

\* UPDATE findings SET resolved_at = ? WHERE fingerprint = ?
MarkResolvedRows(rows, fingerprint, resolvedAt) ==
  {IF r.fingerprint = fingerprint THEN [r EXCEPT !.resolved_at = resolvedAt] ELSE r
     : r \in rows}

\* RowsAffected() of that UPDATE
RowsAffected(rows, fingerprint) == Cardinality({r \in rows : r.fingerprint = fingerprint})

\* ------------------------------------------------------------------ parser
\* bug variant: "warning" is missing from the severityLevel map
SeverityLevelWithoutWarning(sev) == IF sev = "critical" THEN 0 ELSE 2

\* bug variant: an unknown severity is ranked with critical
SeverityLevelUnknownFirst(sev) ==
  IF sev = "warning" THEN 1 ELSE IF sev = "info" THEN 2 ELSE 0

\* the severityLevel map lookup with its default: unknown severity counts as info
SeverityLevel(sev) ==
  IF sev = "critical" THEN 0 ELSE IF sev = "warning" THEN 1 ELSE 2

RECURSIVE FilterSeq(_, _)
FilterSeq(fs, minLevel) ==
  IF fs = <<>> THEN <<>>
  ELSE IF SeverityLevel(Head(fs).Severity) <= minLevel
       THEN <<Head(fs)>> \o FilterSeq(Tail(fs), minLevel)
       ELSE FilterSeq(Tail(fs), minLevel)

\* UBSReport.FilterBySeverity
FilterBySeverity(fs, minSeverity) == FilterSeq(fs, SeverityLevel(minSeverity))

\* UBSFinding.Validate: TRUE when it returns nil
Validate(f) == f.File # <<>> /\ f.Line > 0 /\ f.Category # <<>> /\ f.Message # <<>>

\* --------------------------------------------------------------- transform
SeverityToPriority(severity) ==
  IF severity = "critical" THEN PriorityCritical
  ELSE IF severity = "warning" THEN PriorityHigh
  ELSE PriorityMedium

\* Transformer.Transform: the issue handed to the tracker (only the fields the
\* tracker model keeps), defined when Validate passes
Transform(f) ==
  [Priority |-> SeverityToPriority(IF f.Severity = "" THEN "info" ELSE f.Severity)]

\* ------------------------------------------------------------------ differ
\* bug variant: the first finding of a fingerprint is kept
CurrentMapFirstWins(currentFindings) ==
  [fp \in {FindingFP(currentFindings[i]) : i \in DOMAIN currentFindings} |->
     LET first == CHOOSE i \in DOMAIN currentFindings :
                    /\ FindingFP(currentFindings[i]) = fp
                    /\ \A j \in DOMAIN currentFindings :
                         FindingFP(currentFindings[j]) = fp => i <= j
     IN  currentFindings[first]]

\* currentMap: fingerprint -> incoming finding, a later duplicate overwrites
CurrentMap(currentFindings) ==
  [fp \in {FindingFP(currentFindings[i]) : i \in DOMAIN currentFindings} |->
     LET last == CHOOSE i \in DOMAIN currentFindings :
                   /\ FindingFP(currentFindings[i]) = fp
                   /\ \A j \in DOMAIN currentFindings :
                        FindingFP(currentFindings[j]) = fp => j <= i
     IN  currentFindings[last]]

\* dbMap: fingerprint -> unresolved stored finding
DbMap(rows) ==
  [fp \in {g.Fingerprint : g \in GetUnresolved(rows)} |->
     CHOOSE g \in GetUnresolved(rows) : g.Fingerprint = fp]

\* the loop over currentMap, first branch
DiffNew(currentMap, dbMap) ==
  {currentMap[fp] : fp \in DOMAIN currentMap \ DOMAIN dbMap}

\* bug variant: a fingerprint in both maps is Changed whatever its severity
DiffChangedAnySeverity(currentMap, dbMap) ==
  {[Previous |-> dbMap[fp], Current |-> currentMap[fp]] :
     fp \in DOMAIN currentMap \cap DOMAIN dbMap}

\* the loop over currentMap, second branch
DiffChanged(currentMap, dbMap) ==
  {[Previous |-> dbMap[fp], Current |-> currentMap[fp]] :
     fp \in {q \in DOMAIN currentMap \cap DOMAIN dbMap :
               dbMap[q].Severity # currentMap[q].Severity}}

\* bug variant: every unresolved record is Resolved, seen again or not
DiffResolvedAll(currentMap, dbMap) ==
  {dbMap[fp] : fp \in DOMAIN dbMap}

\* the loop over dbMap
DiffResolved(currentMap, dbMap) ==
  {dbMap[fp] : fp \in DOMAIN dbMap \ DOMAIN currentMap}

\* Differ.Diff; Go's map iteration order is unspecified, so the three slices
\* are sets here and executeActions takes their items in any order
Diff(rows, currentFindings) ==
  LET currentMap == CurrentMap(currentFindings)
      dbMap == DbMap(rows)
  IN  [New |-> DiffNew(currentMap, dbMap),
       Changed |-> DiffChanged(currentMap, dbMap),
       Resolved |-> DiffResolved(currentMap, dbMap)]

IsEmpty(dr) == dr.New = {} /\ dr.Changed = {} /\ dr.Resolved = {}

EmptyDiff == [New |-> {}, Changed |-> {}, Resolved |-> {}]

\* ----------------------------------------------------------------- tracker
\* The tracker CLI is a black box that returns an id or fails.  An issue keeps
\* the priority it was given and whether it was closed; fp (the fingerprint of
\* the finding it was created for) is history, not tracker data.
NewIssueID(tr) == <<"bd", Cardinality(tr) + 1>>

\* a successful `create`: a new open issue under a fresh id
TrackerCreate(tr, issue, fp) ==
  tr \cup {[id |-> NewIssueID(tr), fp |-> fp, priority |-> issue.Priority,
            status |-> "open"]}

\* a successful `update <id> -p <priority>`
TrackerUpdate(tr, issueID, priority) ==
  {IF i.id = issueID THEN [i EXCEPT !.priority = priority] ELSE i : i \in tr}

\* a successful `close <id>`
TrackerClose(tr, issueID) ==
  {IF i.id = issueID THEN [i EXCEPT !.status = "closed"] ELSE i : i \in tr}

\* ------------------------------------------------------------------ inputs
FileA == <<"a">>
CatX == <<"x">>
MsgM == <<"m">>

UBS(line, severity, snippet) ==
  [File |-> FileA, Line |-> line, Severity |-> severity, Category |-> CatX,
   Message |-> MsgM, CodeSnippet |-> snippet]

\* what a run reads from stdin: nothing (it exited first), malformed JSON or a
\* report with its findings
NoInput == [read |-> "none", Findings |-> <<>>]
Malformed == [read |-> "malformed", Findings |-> <<>>]
Report(fs) == [read |-> "report", Findings |-> fs]

SeqsUpTo(S, n) == UNION {[1..k -> S] : k \in 0..n}

\* scanner findings: line-anchored ones (no snippet) at two severities, two
\* snippet-anchored ones that share a fingerprint across a line shift, one of
\* a severity outside the enum, one that fails Validate (line 0)
ScanFindings ==
  {UBS(1, "critical", <<>>), UBS(1, "warning", <<>>),
   UBS(3, "warning", <<"s">>), UBS(4, "info", <<" ", "S">>),
   UBS(2, "note", <<>>), UBS(0, "warning", <<>>)}

Scans == {Report(fs) : fs \in SeqsUpTo(ScanFindings, MaxScanLen)} \cup {Malformed}

\* findings for the fingerprint function: two categories, three lines, no
\* snippet, a snippet ("a b"), the same in other case and white space
\* (" A  B "), the same with a blank line after it, one of other text and one
\* that is all white space, one of six lines and the same after a blank line
SixLines == <<"a", "\n", "b", "\n", "c", "\n", "d", "\n", "e", "\n", "f">>
FpSnippets ==
  {<<>>, <<"a", " ", "b">>, <<" ", "A", " ", " ", "B", " ">>,
   <<"a", " ", "b", "\n", " ", "\n">>, <<"a", "\n", "b">>, <<" ">>,
   SixLines, <<"\n">> \o SixLines}
FpFindings ==
  {[File |-> FileA, Line |-> line, Severity |-> "warning", Category |-> category,
    Message |-> MsgM, CodeSnippet |-> snippet] :
     line \in {1, 2, 12}, category \in {CatX, <<"y">>}, snippet \in FpSnippets}
FpScans == {Report(fs) : fs \in SeqsUpTo(FpFindings, MaxScanLen)}
FpFlags == [autoClose |-> FALSE, dryRun |-> TRUE, minSeverity |-> "info"]

\* findings whose fields hold the characters the hashed string is built with
SepFiles == {FileA, <<"a", ":", "b">>}
SepCategories == {<<"c">>, <<"b", ":", "c">>, <<"1">>}
SepMessages == {MsgM, <<"c">>}
SepSnippets == {<<>>, MsgM}
SepFindings ==
  {[File |-> file, Line |-> 1, Severity |-> "warning", Category |-> category,
    Message |-> message, CodeSnippet |-> snippet] :
     file \in SepFiles, category \in SepCategories, message \in SepMessages,
     snippet \in SepSnippets}
SepScans == {Report(fs) : fs \in SeqsUpTo(SepFindings, MaxScanLen)}

\* one finding, present or absent, at either severity
RepeatScans == {Report(<<>>), Report(<<UBS(1, "critical", <<>>)>>),
                Report(<<UBS(1, "warning", <<>>)>>)}

MinSeverities == {"critical", "warning", "info", "high"}
ValidSeverities == {"critical", "warning", "info"}

Flags == [autoClose : BOOLEAN, dryRun : BOOLEAN, minSeverity : MinSeverities]
RepeatFlags == [autoClose : BOOLEAN, dryRun : {FALSE}, minSeverity : {"info"}]
NoFlags == [autoClose |-> FALSE, dryRun |-> FALSE, minSeverity |-> "warning"]

\* the world a run meets: all well, no tracker CLI, the store does not open,
\* or the store's query fails
Environments == {"ok", "no_bd", "open_fails", "query_fails"}

NoRet == [op |-> "none", fp |-> <<>>, err |-> FALSE, existed |-> FALSE, panic |-> FALSE,
          wasResolved |-> FALSE, id |-> 0]
\* a Transaction as the tests construct it, &Transaction{database: database};
\* logged is the id LogOperation returned to the last Begin*, which Begin* drops
NoTransaction == [operation |-> "", issueID |-> <<>>, status |-> "", logged |-> 0]

NoPrev == [again |-> FALSE, diffed |-> FALSE, fail |-> {}, acted |-> FALSE,
           hadResolved |-> FALSE]

\* ------------------------------------------------------------------- Init
\* db.Open on a fresh path: both tables empty; no issue in the tracker
\* the run state of a strung process that has not started a run
IdleProcess ==
  [pc |-> "idle", s |-> NoFlags, input |-> NoInput, result |-> EmptyDiff,
   todo |-> EmptyDiff, now |-> 0, hasErrors |-> FALSE, exitCode |-> -1,
   calls |-> <<>>, fail |-> {}]

Init ==
  /\ findings = {}
  /\ operation_log = <<>>
  /\ tracker = {}
  /\ pc = "idle"
  /\ s = NoFlags
  /\ input = NoInput
  /\ result = EmptyDiff
  /\ todo = EmptyDiff
  /\ now = 0
  /\ hasErrors = FALSE
  /\ exitCode = -1
  /\ calls = <<>>
  /\ fail = {}
  /\ failedEver = {}
  /\ clock = 0
  /\ reruns = 0
  /\ prev = NoPrev
  /\ ret = NoRet
  /\ apiCalls = 0
  /\ transaction = NoTransaction
  /\ other = IdleProcess

\* ------------------------------------------------------------ sync command
\* bug variant: the Resolved loop runs whatever --auto-close says
AdvanceAlwaysCloses(t, flags) ==
  IF t.New # {} THEN "new"
  ELSE IF t.Changed # {} THEN "changed"
  ELSE IF t.Resolved # {} THEN "resolved"
  ELSE "done"

\* bug variant: the Changed loop comes before the New loop
AdvanceChangedFirst(t, flags) ==
  IF t.Changed # {} THEN "changed"
  ELSE IF t.New # {} THEN "new"
  ELSE IF flags.autoClose /\ t.Resolved # {} THEN "resolved"
  ELSE "done"

\* the phase executeActions is in, given what is left to do
Advance(t, flags) ==
  IF t.New # {} THEN "new"
  ELSE IF t.Changed # {} THEN "changed"
  ELSE IF flags.autoClose /\ t.Resolved # {} THEN "resolved"
  ELSE "done"

\* bug variant: the accumulated failure flag is not looked at
FinalCodeAlwaysSuccess(errs) == ExitSyncSuccess

\* executeActions' return value
FinalCode(errs) == IF errs THEN ExitSyncError ELSE ExitSyncSuccess

\* bug variant: the early returns of run() lose their status
ExitEarlyReturnsSuccess(flags, stdin, dr, code) ==
  /\ pc' = "done"
  /\ s' = flags
  /\ input' = stdin
  /\ result' = dr
  /\ todo' = EmptyDiff
  /\ hasErrors' = FALSE
  /\ exitCode' = ExitSyncSuccess
  /\ UNCHANGED now

\* run() returns code before it reaches executeActions
ExitEarly(flags, stdin, dr, code) ==
  /\ pc' = "done"
  /\ s' = flags
  /\ input' = stdin
  /\ result' = dr
  /\ todo' = EmptyDiff
  /\ hasErrors' = FALSE
  /\ exitCode' = code
  /\ UNCHANGED now

\* bug variant: a run whose diff step stores the findings it classifies as New,
\* and which stops after the diff
RunStoresWhileDiffing(flags, stdin, env) ==
  LET dr == Diff(findings, FilterBySeverity(stdin.Findings, "info"))
  IN
  /\ clock' = clock + 1
  /\ calls' = <<>>
  /\ fail' = {}
  /\ findings' = findings \cup
                   {InsertedRow([Fingerprint |-> FindingFP(f), IssueID |-> <<>>,
                                 File |-> f.File, Line |-> f.Line,
                                 Severity |-> f.Severity, Category |-> f.Category,
                                 Message |-> f.Message, FirstSeen |-> clock + 1,
                                 LastSeen |-> clock + 1]) : f \in dr.New}
  /\ UNCHANGED <<operation_log, tracker, failedEver, ret, apiCalls, transaction, other>>
  /\ ExitEarly(flags, stdin, dr, ExitSyncSuccess)

\* syncCmd.run up to the call of executeActions, whose first lines set now and
\* hasErrors; t is what time.Now() returns
RunAt(flags, stdin, env, t) ==
  LET filtered == FilterBySeverity(stdin.Findings, flags.minSeverity)
      dr == Diff(findings, filtered)
  IN
  /\ clock' = t
  /\ calls' = <<>>
  /\ fail' = {}
  /\ UNCHANGED <<findings, operation_log, tracker, failedEver, ret, apiCalls, transaction, other>>
  /\ IF ~flags.dryRun /\ env = "no_bd"
       THEN ExitEarly(flags, NoInput, EmptyDiff, ExitSyncError)
     ELSE IF flags.minSeverity \notin ValidSeverities
       THEN ExitEarly(flags, NoInput, EmptyDiff, ExitSyncUsageError)
     ELSE IF env = "open_fails"
       THEN ExitEarly(flags, NoInput, EmptyDiff, ExitSyncError)
     ELSE IF stdin.read # "report"
       THEN ExitEarly(flags, stdin, EmptyDiff, ExitSyncInputError)
     ELSE IF env = "query_fails"
       THEN ExitEarly(flags, stdin, EmptyDiff, ExitSyncError)
     ELSE IF IsEmpty(dr)
       THEN ExitEarly(flags, stdin, dr, ExitSyncSuccess)
     ELSE /\ s' = flags
          /\ input' = stdin
          /\ result' = dr
          /\ todo' = dr
          /\ now' = t
          /\ hasErrors' = FALSE
          /\ pc' = Advance(dr, flags)
          /\ exitCode' = IF Advance(dr, flags) = "done" THEN ExitSyncSuccess ELSE -1

\* a run at the next tick of the clock
Run(flags, stdin, env) == RunAt(flags, stdin, env, clock + 1)

\* the current (or last) run got as far as computing its DiffResult: it read a
\* report and did not stop on a failing store query
DiffComputed ==
  /\ pc # "idle"
  /\ input.read = "report"
  /\ ~(pc = "done" /\ exitCode = ExitSyncError /\ ~hasErrors)

\* a sync invocation with fresh flags and stdin
SyncRunWith(flagSet, scans, envs, maxRuns) ==
  /\ pc = "idle"
  /\ reruns = 0
  /\ clock < maxRuns
  /\ UNCHANGED reruns
  /\ prev' = NoPrev
  /\ \E flags \in flagSet, stdin \in scans, env \in envs : Run(flags, stdin, env)

\* the same invocation again: same flags, same bytes on stdin
SyncAgainWith(envs, maxReruns) ==
  /\ pc = "done"
  /\ input.read = "report"
  /\ reruns < maxReruns
  /\ reruns' = reruns + 1
  /\ prev' = [again |-> TRUE, diffed |-> DiffComputed, fail |-> fail,
              acted |-> calls # <<>>, hadResolved |-> result.Resolved # {}]
  /\ \E env \in envs : Run(s, input, env)

\* the process ends: only the store and the tracker outlive it
Exit ==
  /\ pc = "done"
  /\ pc' = "idle"
  /\ s' = NoFlags
  /\ input' = NoInput
  /\ result' = EmptyDiff
  /\ todo' = EmptyDiff
  /\ hasErrors' = FALSE
  /\ exitCode' = -1
  /\ calls' = <<>>
  /\ fail' = {}
  /\ prev' = NoPrev
  /\ UNCHANGED <<findings, operation_log, tracker, failedEver, now, clock, reruns, ret,
                 apiCalls, transaction, other>>

\* bug variant: the loops do not look at the dry-run flag
DryRunNeverSkips(flags) == FALSE

\* "if s.dryRun { ...; continue }" at the head of each loop body
DryRunSkips(flags) == flags.dryRun

\* one tracker call of the run, for the history
Call(op, fp, issueID, ok) == [op |-> op, fp |-> fp, issue_id |-> issueID, ok |-> ok]

\* bug variant: the first failure ends the run
StepEndAbortsOnError(t, errs) ==
  /\ todo' = t
  /\ hasErrors' = errs
  /\ pc' = IF errs THEN "done" ELSE Advance(t, s)
  /\ exitCode' = IF errs \/ Advance(t, s) = "done" THEN FinalCode(errs) ELSE -1
  /\ failedEver' = failedEver \cup fail'
  /\ UNCHANGED <<s, input, result, now, clock, reruns, prev, ret, apiCalls, operation_log,
               transaction, other>>

\* what every iteration of executeActions' loops ends with
StepEnd(t, errs) ==
  /\ todo' = t
  /\ hasErrors' = errs
  /\ pc' = Advance(t, s)
  /\ exitCode' = IF Advance(t, s) = "done" THEN FinalCode(errs) ELSE -1
  /\ failedEver' = failedEver \cup fail'
  /\ UNCHANGED <<s, input, result, now, clock, reruns, prev, ret, apiCalls, operation_log,
               transaction, other>>

\* the db.Finding executeActions stores for a new finding
NewDbFinding(finding, issueID, t) ==
  [Fingerprint |-> FindingFP(finding), IssueID |-> issueID, File |-> finding.File,
   Line |-> finding.Line, Severity |-> finding.Severity, Category |-> finding.Category,
   Message |-> finding.Message, FirstSeen |-> t, LastSeen |-> t, ResolvedAt |-> NULL]

\* the db.Finding executeActions stores for a changed finding
ChangedDbFinding(change, t) ==
  [Fingerprint |-> FindingFP(change.Current), IssueID |-> change.Previous.IssueID,
   File |-> change.Current.File, Line |-> change.Current.Line,
   Severity |-> change.Current.Severity, Category |-> change.Current.Category,
   Message |-> change.Current.Message, FirstSeen |-> change.Previous.FirstSeen,
   LastSeen |-> t, ResolvedAt |-> NULL]

\* one iteration of "for _, finding := range result.New"
CreateStep ==
  /\ pc = "new"
  /\ \E finding \in todo.New, createOk \in BOOLEAN, storeOk \in BOOLEAN :
       LET t == [todo EXCEPT !.New = @ \ {finding}]
           fp == FindingFP(finding)
           issueID == NewIssueID(tracker)
       IN
       IF ~Validate(finding) THEN
         /\ fail' = fail \cup {"transform"}
         /\ UNCHANGED <<findings, tracker, calls>>
         /\ StepEnd(t, TRUE)
       ELSE IF DryRunSkips(s) THEN
         /\ UNCHANGED <<findings, tracker, calls, fail>>
         /\ StepEnd(t, hasErrors)
       ELSE IF ~createOk THEN
         /\ calls' = Append(calls, Call("create", fp, <<>>, FALSE))
         /\ fail' = fail \cup {"tracker"}
         /\ UNCHANGED <<findings, tracker>>
         /\ StepEnd(t, TRUE)
       ELSE
         /\ tracker' = TrackerCreate(tracker, Transform(finding), fp)
         /\ calls' = Append(calls, Call("create", fp, issueID, TRUE))
         /\ IF storeOk
            THEN /\ findings' = StoreRows(findings, NewDbFinding(finding, issueID, now))
                 /\ UNCHANGED fail
                 /\ StepEnd(t, hasErrors)
            ELSE /\ fail' = fail \cup {"store"}
                 /\ UNCHANGED findings
                 /\ StepEnd(t, TRUE)

\* bug variant: the priority is derived from the stored severity
NewPriorityFromPrevious(change) == SeverityToPriority(change.Previous.Severity)

\* newPriority of the Changed loop
NewPriority(change) == SeverityToPriority(change.Current.Severity)

\* one iteration of "for _, change := range result.Changed"
UpdateStep ==
  /\ pc = "changed"
  /\ \E change \in todo.Changed, updateOk \in BOOLEAN, storeOk \in BOOLEAN :
       LET t == [todo EXCEPT !.Changed = @ \ {change}]
           fp == FindingFP(change.Current)
           issueID == change.Previous.IssueID
           newPriority == NewPriority(change)
       IN
       IF DryRunSkips(s) THEN
         /\ UNCHANGED <<findings, tracker, calls, fail>>
         /\ StepEnd(t, hasErrors)
       ELSE IF ~updateOk THEN
         /\ calls' = Append(calls, Call("update", fp, issueID, FALSE))
         /\ fail' = fail \cup {"tracker"}
         /\ UNCHANGED <<findings, tracker>>
         /\ StepEnd(t, TRUE)
       ELSE
         /\ tracker' = TrackerUpdate(tracker, issueID, newPriority)
         /\ calls' = Append(calls, Call("update", fp, issueID, TRUE))
         /\ IF storeOk
            THEN /\ findings' = StoreRows(findings, ChangedDbFinding(change, now))
                 /\ UNCHANGED fail
                 /\ StepEnd(t, hasErrors)
            ELSE /\ fail' = fail \cup {"store"}
                 /\ UNCHANGED findings
                 /\ StepEnd(t, TRUE)

\* one iteration of "for _, resolved := range result.Resolved" (auto-close on)
CloseStep ==
  /\ pc = "resolved"
  /\ \E resolved \in todo.Resolved, closeOk \in BOOLEAN, storeOk \in BOOLEAN :
       LET t == [todo EXCEPT !.Resolved = @ \ {resolved}]
       IN
       IF DryRunSkips(s) THEN
         /\ UNCHANGED <<findings, tracker, calls, fail>>
         /\ StepEnd(t, hasErrors)
       ELSE IF ~closeOk THEN
         /\ calls' = Append(calls, Call("close", resolved.Fingerprint, resolved.IssueID, FALSE))
         /\ fail' = fail \cup {"tracker"}
         /\ UNCHANGED <<findings, tracker>>
         /\ StepEnd(t, TRUE)
       ELSE
         /\ tracker' = TrackerClose(tracker, resolved.IssueID)
         /\ calls' = Append(calls, Call("close", resolved.Fingerprint, resolved.IssueID, TRUE))
         /\ IF storeOk /\ RowsAffected(findings, resolved.Fingerprint) # 0
            THEN /\ findings' = MarkResolvedRows(findings, resolved.Fingerprint, now)
                 /\ UNCHANGED fail
                 /\ StepEnd(t, hasErrors)
            ELSE /\ fail' = fail \cup {"store"}
                 /\ UNCHANGED findings
                 /\ StepEnd(t, TRUE)

\* ------------------------------------------------------- the store's API
\* findings a caller of the db package may pass to Store
ApiFinding(fp, k, sev, first, last) ==
  [Fingerprint |-> fp, IssueID |-> <<"ext", k>>, File |-> FileA, Line |-> k,
   Severity |-> sev, Category |-> CatX, Message |-> MsgM,
   FirstSeen |-> first, LastSeen |-> last, ResolvedAt |-> NULL]

\* a caller-chosen fingerprint that is no digest, as the package's tests pass
ShortFingerprint == <<"f", "p", "2">>

ApiFingerprints == {FindingFP(UBS(1, "warning", <<>>)), FindingFP(UBS(3, "warning", <<"s">>)),
                    ShortFingerprint}
\* two callers: each has its own issue id and reports its own line
ApiCallers == {1, 2}

ApiFindings ==
  {ApiFinding(fp, k, sev, first, last) :
     fp \in ApiFingerprints, k \in ApiCallers, sev \in {"critical", "warning"},
     first \in 1..MaxTime, last \in 1..MaxTime}

\* the store API used next to sync runs: the fingerprint sync tracks
SmallApiFindings ==
  {ApiFinding(FindingFP(UBS(1, "warning", <<>>)), 1, sev, t, t) :
     sev \in {"critical", "warning"}, t \in 1..MaxTime}

\* TrackingDB.Store(f); ok = FALSE is a storage error, which writes nothing and
\* whose message is built from f.Fingerprint[:12]
Store(f, ok) ==
  /\ findings' = IF ok THEN StoreRows(findings, f) ELSE findings
  /\ ret' = [op |-> "Store", fp |-> f.Fingerprint,
             err |-> ~ok /\ ~SlicePanics(f.Fingerprint),
             existed |-> \E r \in findings : r.fingerprint = f.Fingerprint,
             panic |-> ~ok /\ SlicePanics(f.Fingerprint),
             wasResolved |-> \E r \in findings :
                               r.fingerprint = f.Fingerprint /\ r.resolved_at # NULL,
             id |-> 0]

\* the error MarkResolved has to report: the UPDATE failed, or it matched no row
MarkResolvedFails(rows, fingerprint, ok) == ~ok \/ RowsAffected(rows, fingerprint) = 0

\* TrackingDB.MarkResolved(fingerprint, resolvedAt); both error messages are
\* built from fingerprint[:12]
MarkResolved(fingerprint, resolvedAt, ok) ==
  /\ findings' = IF ok THEN MarkResolvedRows(findings, fingerprint, resolvedAt)
                 ELSE findings
  /\ ret' = [op |-> "MarkResolved", fp |-> fingerprint,
             err |-> MarkResolvedFails(findings, fingerprint, ok) /\ ~SlicePanics(fingerprint),
             existed |-> \E r \in findings : r.fingerprint = fingerprint,
             panic |-> MarkResolvedFails(findings, fingerprint, ok) /\ SlicePanics(fingerprint),
             wasResolved |-> \E r \in findings :
                               r.fingerprint = fingerprint /\ r.resolved_at # NULL,
             id |-> 0]

\* TrackingDB.Get(fingerprint) as a call; ok = FALSE is a storage error other
\* than sql.ErrNoRows, whose message is built from fingerprint[:12]
GetFinding(fingerprint, ok) ==
  /\ UNCHANGED findings
  /\ ret' = [NoRet EXCEPT !.op = "Get", !.fp = fingerprint,
                          !.err = ~ok /\ ~SlicePanics(fingerprint),
                          !.existed = \E r \in findings : r.fingerprint = fingerprint,
                          !.panic = ~ok /\ SlicePanics(fingerprint)]

ApiGetWith(fps, maxCalls) ==
  /\ pc = "idle"
  /\ apiCalls < maxCalls
  /\ apiCalls' = apiCalls + 1
  /\ \E fp \in fps, ok \in BOOLEAN : GetFinding(fp, ok)
  /\ UNCHANGED <<operation_log, tracker, prev, transaction, other>>
  /\ UNCHANGED runVars

ApiStoreWith(fs, maxCalls) ==
  /\ pc = "idle"
  /\ apiCalls < maxCalls
  /\ apiCalls' = apiCalls + 1
  /\ \E f \in fs, ok \in BOOLEAN : Store(f, ok)
  /\ UNCHANGED <<operation_log, tracker, prev, transaction, other>>
  /\ UNCHANGED runVars

ApiMarkResolvedWith(fps, maxCalls) ==
  /\ pc = "idle"
  /\ apiCalls < maxCalls
  /\ apiCalls' = apiCalls + 1
  /\ \E fp \in fps, t \in 1..MaxTime, ok \in BOOLEAN : MarkResolved(fp, t, ok)
  /\ UNCHANGED <<operation_log, tracker, prev, transaction, other>>
  /\ UNCHANGED runVars

\* ------------------------------------------------- the operation log's API
\* the row LogOperation inserts: AUTOINCREMENT gives it the next id
LoggedRow(log, op) ==
  [id |-> Len(log) + 1, operation |-> op.Operation, fingerprint |-> op.Fingerprint,
   issue_id |-> op.IssueID, status |-> op.Status, error |-> op.Error,
   created_at |-> op.CreatedAt]

\* bug variant: the UPDATE has no WHERE clause
UpdateStatusRowsAll(log, id, status, errorMsg) ==
  [k \in DOMAIN log |-> [log[k] EXCEPT !.status = status, !.error = errorMsg]]

\* UPDATE operation_log SET status = ?, error = ? WHERE id = ?
UpdateStatusRows(log, id, status, errorMsg) ==
  [k \in DOMAIN log |->
     IF log[k].id = id THEN [log[k] EXCEPT !.status = status, !.error = errorMsg]
     ELSE log[k]]

\* rows.Scan into an Operation
ScanOperation(r) ==
  [ID |-> r.id, Operation |-> r.operation, Fingerprint |-> r.fingerprint,
   IssueID |-> r.issue_id, Status |-> r.status, Error |-> r.error,
   CreatedAt |-> r.created_at]

\* TrackingDB.GetPendingOperations: WHERE status = 'pending' (as a set)
GetPendingOperations(log) ==
  {ScanOperation(log[k]) : k \in {j \in DOMAIN log : log[j].status = "pending"}}

\* bug variant: the status of the log entry is not looked at
GetOrphanedIssuesAnyStatus(log, rows) ==
  {log[k].issue_id : k \in {j \in DOMAIN log :
     /\ log[j].operation = "create"
     /\ log[j].issue_id \notin {r.issue_id : r \in rows}}}

\* TrackingDB.GetOrphanedIssues: SELECT DISTINCT issue_id ... WHERE operation =
\* 'create' AND status = 'completed' AND issue_id NOT IN (SELECT issue_id FROM
\* findings); neither column ever holds NULL, both are written from Go strings
GetOrphanedIssues(log, rows) ==
  {log[k].issue_id : k \in {j \in DOMAIN log :
     /\ log[j].operation = "create"
     /\ log[j].status = "completed"
     /\ log[j].issue_id \notin {r.issue_id : r \in rows}}}

\* TrackingDB.GetAll
GetAll(rows) == {ScanRow(r) : r \in rows}

\* recoverCmd.run's count of fingerprints seen more than once
Duplicates(fs) == Cardinality(fs) - Cardinality({f.Fingerprint : f \in fs})

\* the operation log after recoverCmd.run: it returns at once on a store
\* without findings, and with --fix its only write is
\* UpdateOperationStatus(0, "failed", ...) when it counted duplicates
RecoverRows(log, rows, fix) ==
  IF GetAll(rows) # {} /\ Duplicates(GetAll(rows)) > 0 /\ fix
  THEN UpdateStatusRows(log, 0, "failed", "duplicate fingerprint")
  ELSE log

\* operations a caller of the db package may log
ApiOperations ==
  [Operation : {"create", "update"}, Fingerprint : {ShortFingerprint},
   IssueID : {<<"ext", 1>>, <<"ext", 2>>}, Status : {"pending", "completed", "failed"},
   Error : {""}, CreatedAt : 1..MaxTime]

\* TrackingDB.LogOperation(op); ok = FALSE is a storage error
LogOperation(op, ok) ==
  /\ operation_log' = IF ok THEN Append(operation_log, LoggedRow(operation_log, op))
                      ELSE operation_log
  /\ ret' = [NoRet EXCEPT !.op = "LogOperation", !.fp = op.Fingerprint, !.err = ~ok,
                          !.id = IF ok THEN Len(operation_log) + 1 ELSE 0]

\* TrackingDB.UpdateOperationStatus(id, status, errorMsg)
UpdateOperationStatus(id, status, errorMsg, ok) ==
  /\ operation_log' = IF ok THEN UpdateStatusRows(operation_log, id, status, errorMsg)
                      ELSE operation_log
  /\ ret' = [NoRet EXCEPT !.op = "UpdateOperationStatus", !.err = ~ok, !.id = id,
                          !.existed = \E k \in DOMAIN operation_log :
                                        operation_log[k].id = id]

\* `strung recover [--fix]` on a store that opens
Recover(fix) ==
  /\ operation_log' = RecoverRows(operation_log, findings, fix)
  /\ ret' = [NoRet EXCEPT !.op = IF fix THEN "recover --fix" ELSE "recover"]

LogOperationCall ==
  /\ pc = "idle"
  /\ apiCalls < MaxLogCalls
  /\ apiCalls' = apiCalls + 1
  /\ \E op \in ApiOperations, ok \in BOOLEAN : LogOperation(op, ok)
  /\ UNCHANGED <<findings, tracker, prev, transaction, other>>
  /\ UNCHANGED runVars

UpdateStatusCall ==
  /\ pc = "idle"
  /\ apiCalls < MaxLogCalls
  /\ apiCalls' = apiCalls + 1
  /\ \E id \in 0..MaxLogCalls, status \in {"completed", "failed"},
        errorMsg \in {"", "operation failed"}, ok \in BOOLEAN :
       UpdateOperationStatus(id, status, errorMsg, ok)
  /\ UNCHANGED <<findings, tracker, prev, transaction, other>>
  /\ UNCHANGED runVars

RecoverCall ==
  /\ pc = "idle"
  /\ apiCalls < MaxLogCalls
  /\ apiCalls' = apiCalls + 1
  /\ \E fix \in BOOLEAN : Recover(fix)
  /\ UNCHANGED <<findings, tracker, prev, transaction, other>>
  /\ UNCHANGED runVars

\* -------------------------------------------- two processes on one store
\* the operating system lets the other strung process run: the two processes'
\* own states change places, the store and the tracker are shared
Switch ==
  /\ pc' = other.pc /\ s' = other.s /\ input' = other.input
  /\ result' = other.result /\ todo' = other.todo /\ now' = other.now
  /\ hasErrors' = other.hasErrors /\ exitCode' = other.exitCode
  /\ calls' = other.calls /\ fail' = other.fail
  /\ other' = [pc |-> pc, s |-> s, input |-> input, result |-> result, todo |-> todo,
               now |-> now, hasErrors |-> hasErrors, exitCode |-> exitCode,
               calls |-> calls, fail |-> fail]
  /\ other' # other
  /\ UNCHANGED <<findings, operation_log, tracker, failedEver, clock, reruns, prev, ret,
                 apiCalls, transaction>>

\* ------------------------------------------------------- sync.Transaction
\* the db.Operation a Begin* logs
PendingOperation(operation, fp, issueID, t) ==
  [Operation |-> operation, Fingerprint |-> fp, IssueID |-> issueID,
   Status |-> "pending", Error |-> "", CreatedAt |-> t]

\* the body shared by BeginCreate, BeginUpdate and BeginClose; BeginCreate
\* leaves t.issueID as it is
Begin(operation, fp, issueID, setsIssueID, t, ok) ==
  /\ transaction' = [operation |-> operation,
                     issueID |-> IF setsIssueID THEN issueID ELSE transaction.issueID,
                     status |-> "pending",
                     logged |-> IF ok THEN Len(operation_log) + 1 ELSE 0]
  /\ LogOperation(PendingOperation(operation, fp, issueID, t), ok)

\* Transaction.BeginCreate(finding)
BeginCreate(finding, t, ok) ==
  Begin("create", finding.Fingerprint, finding.IssueID, FALSE, t, ok)

\* Transaction.BeginUpdate(issueID, fp)
BeginUpdate(issueID, fp, t, ok) == Begin("update", fp, issueID, TRUE, t, ok)

\* Transaction.BeginClose(issueID, fp)
BeginClose(issueID, fp, t, ok) == Begin("close", fp, issueID, TRUE, t, ok)

\* the id CompleteCreate, CompleteUpdate, CompleteClose and FailOperation
\* hand to UpdateOperationStatus
FinishID(txn) == 0

\* the body shared by CompleteCreate, CompleteUpdate, CompleteClose
\* ("completed", "") and FailOperation ("failed", "operation failed")
Finish(status, errorMsg, ok) ==
  /\ transaction' = [transaction EXCEPT !.status = status]
  /\ UpdateOperationStatus(FinishID(transaction), status, errorMsg, ok)

\* Transaction.CompleteCreate(finding)
CompleteCreate(ok) == Finish("completed", "", ok)

\* Transaction.CompleteUpdate(fp)
CompleteUpdate(ok) == Finish("completed", "", ok)

\* Transaction.CompleteClose(fp)
CompleteClose(ok) == Finish("completed", "", ok)

\* Transaction.FailOperation(fp)
FailOperation(ok) == Finish("failed", "operation failed", ok)

\* the fingerprints and issue ids the transaction calls are made with
TxnFingerprints == {ShortFingerprint}
TxnIssueIDs == {<<"ext", 1>>, <<"ext", 2>>}
TxnFindings == {ApiFinding(fp, k, "warning", 1, 1) : fp \in TxnFingerprints, k \in ApiCallers}

\* a caller's step with a Transaction: what it leaves alone
TxnCall ==
  /\ pc = "idle"
  /\ apiCalls < MaxTxnCalls
  /\ apiCalls' = apiCalls + 1
  /\ UNCHANGED <<findings, tracker, prev, other>>
  /\ UNCHANGED runVars

BeginCreateCall ==
  /\ TxnCall
  /\ \E finding \in TxnFindings, t \in 1..MaxTime, ok \in BOOLEAN : BeginCreate(finding, t, ok)

BeginUpdateCall ==
  /\ TxnCall
  /\ \E issueID \in TxnIssueIDs, fp \in TxnFingerprints, t \in 1..MaxTime, ok \in BOOLEAN :
       BeginUpdate(issueID, fp, t, ok)

BeginCloseCall ==
  /\ TxnCall
  /\ \E issueID \in TxnIssueIDs, fp \in TxnFingerprints, t \in 1..MaxTime, ok \in BOOLEAN :
       BeginClose(issueID, fp, t, ok)

\* the flows of the package's tests: a Complete* follows the Begin* of its kind
CompleteCreateCall ==
  /\ TxnCall
  /\ transaction.operation = "create" /\ transaction.status = "pending"
  /\ \E ok \in BOOLEAN : CompleteCreate(ok)

CompleteUpdateCall ==
  /\ TxnCall
  /\ transaction.operation = "update" /\ transaction.status = "pending"
  /\ \E ok \in BOOLEAN : CompleteUpdate(ok)

CompleteCloseCall ==
  /\ TxnCall
  /\ transaction.operation = "close" /\ transaction.status = "pending"
  /\ \E ok \in BOOLEAN : CompleteClose(ok)

FailOperationCall ==
  /\ TxnCall
  /\ transaction.status = "pending"
  /\ \E ok \in BOOLEAN : FailOperation(ok)

\* ---------------------------------------------------------- specifications
\* sync runs over every flag, scan and environment
SyncRun == SyncRunWith(Flags, Scans, Environments, MaxRuns)
SyncAgain == SyncAgainWith(Environments, MaxReruns)
NextSync == SyncRun \/ SyncAgain \/ CreateStep \/ UpdateStep \/ CloseStep \/ Exit
SpecSync == Init /\ [][NextSync]_vars

\* many non-dry-run sync runs over one finding
RepeatRun == SyncRunWith(RepeatFlags, RepeatScans, {"ok"}, MaxRepeatRuns)
NextRepeat == RepeatRun \/ CreateStep \/ UpdateStep \/ CloseStep \/ Exit
SpecRepeat == Init /\ [][NextRepeat]_vars

\* the store's API alone
StoreCall == ApiStoreWith(ApiFindings, MaxStoreCalls)
MarkResolvedCall == ApiMarkResolvedWith(ApiFingerprints, MaxStoreCalls)
NextStore == StoreCall \/ MarkResolvedCall
SpecStore == Init /\ [][NextStore]_vars

\* the store's API with Get, every call meeting a storage error or not
GetCall == ApiGetWith(ApiFingerprints, MaxStoreCalls)
NextStoreErrors == StoreCall \/ MarkResolvedCall \/ GetCall
SpecStoreErrors == Init /\ [][NextStoreErrors]_vars

\* the operation log's API, the store's Store and the recover command
LogStoreCall == ApiStoreWith(SmallApiFindings, MaxLogCalls)
NextLog == LogOperationCall \/ UpdateStatusCall \/ RecoverCall \/ LogStoreCall
SpecLog == Init /\ [][NextLog]_vars

\* two strung processes syncing against one store, their steps interleaved
ConcurrentRun == SyncRunWith(RepeatFlags, RepeatScans, {"ok"}, MaxConcurrentRuns)
NextConcurrent == ConcurrentRun \/ Switch \/ CreateStep \/ UpdateStep \/ CloseStep \/ Exit
SpecConcurrent == Init /\ [][NextConcurrent]_vars

\* the same invocation repeated without end (non-dry-run, auto-close on, every
\* store write succeeding), after at most MaxLiveSetupRuns invocations that
\* fill the store; a tracker call may fail any number of times, but a call
\* that can be tried again and again succeeds at some time
LiveFlags == [autoClose |-> TRUE, dryRun |-> FALSE, minSeverity |-> "info"]
LiveScans == {Report(<<>>), Report(<<UBS(1, "critical", <<>>)>>),
              Report(<<UBS(1, "warning", <<>>), UBS(2, "warning", <<>>)>>)}
LiveRun == SyncRunWith({LiveFlags}, LiveScans, {"ok"}, MaxLiveSetupRuns)
LiveExit == clock < MaxLiveSetupRuns /\ Exit
LiveRerun ==
  /\ pc = "done"
  /\ input.read = "report"
  /\ UNCHANGED reruns
  /\ prev' = [again |-> TRUE, diffed |-> DiffComputed, fail |-> fail,
              acted |-> calls # <<>>, hadResolved |-> result.Resolved # {}]
  /\ RunAt(s, input, "ok", IF clock < MaxLiveTime THEN clock + 1 ELSE clock)
LiveCreateStep == CreateStep /\ "store" \notin fail'
LiveUpdateStep == UpdateStep /\ "store" \notin fail'
LiveCloseStep == CloseStep /\ "store" \notin fail'
LiveStep == LiveCreateStep \/ LiveUpdateStep \/ LiveCloseStep
\* a loop iteration whose tracker call succeeded: it has written to the store
SuccessStep == LiveStep /\ findings' # findings
NextLive == LiveRun \/ LiveExit \/ LiveRerun \/ LiveCreateStep \/ LiveUpdateStep
              \/ LiveCloseStep
SpecLive ==
  /\ Init /\ [][NextLive]_vars
  /\ WF_vars(LiveRun) /\ WF_vars(LiveRerun) /\ WF_vars(LiveStep)
  /\ SF_vars(SuccessStep)

NextTransaction == BeginCreateCall \/ BeginUpdateCall \/ BeginCloseCall
                     \/ CompleteCreateCall \/ CompleteUpdateCall \/ CompleteCloseCall
                     \/ FailOperationCall
SpecTransaction == Init /\ [][NextTransaction]_vars

\* dry-runs on an empty store over scans that vary what the fingerprint is
\* computed from
FingerprintRun == SyncRunWith({FpFlags}, FpScans, {"ok"}, MaxFingerprintRuns)
NextFingerprint == FingerprintRun \/ CreateStep \/ Exit
SpecFingerprint == Init /\ [][NextFingerprint]_vars

\* dry-runs on an empty store over scans whose fields hold ':' and '|'
SeparatorRun == SyncRunWith({FpFlags}, SepScans, {"ok"}, MaxFingerprintRuns)
NextSeparator == SeparatorRun \/ CreateStep \/ Exit
SpecSeparator == Init /\ [][NextSeparator]_vars

\* sync runs and store API calls on one finding, in any order
SmallRun == SyncRunWith(RepeatFlags, RepeatScans, {"ok"}, MaxRuns)
SmallStore == ApiStoreWith(SmallApiFindings, MaxApiCalls)
SmallMarkResolved == ApiMarkResolvedWith({FindingFP(UBS(1, "warning", <<>>))}, MaxApiCalls)
Next == SmallRun \/ SmallStore \/ SmallMarkResolved \/ CreateStep \/ UpdateStep
          \/ CloseStep \/ Exit
Spec == Init /\ [][Next]_vars

\* ================================================================== claims
\* the state right after Diff returned: nothing of the result is processed yet,
\* so the findings table is the one Diff read
AtDiff == DiffComputed /\ todo = result

\* the list handed to Diff
Incoming == FilterBySeverity(input.Findings, s.minSeverity)
IncomingFPs == {FindingFP(Incoming[i]) : i \in DOMAIN Incoming}
\* all fingerprints on stdin, filtered out or not
ScannedFPs == {FindingFP(input.Findings[i]) : i \in DOMAIN input.Findings}
\* the incoming finding that stands for a fingerprint: its last occurrence
LastIncoming(fp) ==
  Incoming[CHOOSE i \in DOMAIN Incoming :
             /\ FindingFP(Incoming[i]) = fp
             /\ \A j \in (i + 1)..Len(Incoming) : FindingFP(Incoming[j]) # fp]
OpenRows == {r \in findings : r.resolved_at = NULL}
OpenFPs == {r.fingerprint : r \in OpenRows}
OpenRow(fp) == CHOOSE r \in OpenRows : r.fingerprint = fp

\* C1: Diff returns New = the incoming fingerprints without an open record,
\* Changed = the fingerprints both incoming and open whose severities differ,
\* paired (stored record, incoming finding), Resolved = the open records whose
\* fingerprint is not incoming; equal severity puts a fingerprint in no set.
\* (The incoming finding of a fingerprint is its last occurrence in the list.)
C1_DiffContract ==
  AtDiff =>
    /\ result.New = {LastIncoming(fp) : fp \in IncomingFPs \ OpenFPs}
    /\ result.Changed =
         {[Previous |-> ScanRow(OpenRow(fp)), Current |-> LastIncoming(fp)] :
            fp \in {q \in IncomingFPs \cap OpenFPs :
                      OpenRow(q).severity # LastIncoming(q).Severity}}
    /\ result.Resolved = {ScanRow(r) : r \in {q \in OpenRows : q.fingerprint \notin IncomingFPs}}
    /\ \A fp \in IncomingFPs \cap OpenFPs :
         OpenRow(fp).severity = LastIncoming(fp).Severity =>
           /\ fp \notin {FindingFP(f) : f \in result.New}
           /\ fp \notin {FindingFP(c.Current) : c \in result.Changed}
           /\ fp \notin {g.Fingerprint : g \in result.Resolved}

\* a diff with a new, a changed and a resolved finding at once
C1_Witness ==
  AtDiff /\ result.New # {} /\ result.Changed # {} /\ result.Resolved # {}

\* a diff that leaves a re-observed finding of unchanged severity alone
C1_WitnessUnchanged ==
  /\ AtDiff
  /\ \E fp \in IncomingFPs \cap OpenFPs : OpenRow(fp).severity = LastIncoming(fp).Severity

NewFPs == {FindingFP(f) : f \in result.New}
ChangedFPs == {c.Previous.Fingerprint : c \in result.Changed}
                \cup {FindingFP(c.Current) : c \in result.Changed}
ResolvedFPs == {g.Fingerprint : g \in result.Resolved}

\* C2: no fingerprint is in more than one of New, Changed and Resolved, also
\* when the incoming list repeats a fingerprint.
C2_Disjoint ==
  DiffComputed =>
    /\ NewFPs \cap ChangedFPs = {}
    /\ NewFPs \cap ResolvedFPs = {}
    /\ ChangedFPs \cap ResolvedFPs = {}

\* an incoming list that repeats a fingerprint, diffed into a changed and a
\* resolved finding
C2_Witness ==
  /\ AtDiff
  /\ Cardinality(IncomingFPs) < Len(Incoming)
  /\ result.Changed # {}
  /\ result.Resolved # {}

\* C3: every create, update or close that a sync run makes against the
\* tracker has an operation-log entry for that fingerprint and operation,
\* pending before the call and completed or failed once it returned.
C3_CallsLogged ==
  \A i \in DOMAIN calls :
    \E k \in DOMAIN operation_log :
      /\ operation_log[k].operation = calls[i].op
      /\ operation_log[k].fingerprint = calls[i].fp
      /\ operation_log[k].status = IF calls[i].ok THEN "completed" ELSE "failed"

\* the run repeats the previous invocation, which computed a diff and in which
\* no step failed, and dry-run is off
CleanRerun ==
  /\ prev.again
  /\ prev.diffed
  /\ prev.fail = {}
  /\ ~s.dryRun
  /\ DiffComputed

\* C4 as stated: under any flags other than dry-run, a sync run in which every
\* step succeeds, run again at once with the same input and flags, finds an
\* empty DiffResult.
C4_RerunEmpty == CleanRerun => IsEmpty(result)

\* C4 amended: the same, with auto-close on or with no record classified as
\* Resolved by the first run.
C4_RerunEmptyAutoClose ==
  (CleanRerun /\ (s.autoClose \/ ~prev.hadResolved)) => IsEmpty(result)

\* the second of two identical runs, the first of which called the tracker
C4_Witness ==
  CleanRerun /\ prev.acted /\ (s.autoClose \/ ~prev.hadResolved) /\ IsEmpty(result)

\* C5: while every store write succeeds, no fingerprint has two issues created
\* by sync that sync has not closed.
C5_NoDuplicateIssues ==
  "store" \notin failedEver =>
    \A i, j \in tracker :
      (i.fp = j.fp /\ i.status = "open" /\ j.status = "open") => i = j

\* C6: a stored finding whose scan entry the minimum-severity filter drops is
\* not classified as Resolved.
C6_FilteredNotResolved ==
  DiffComputed => ResolvedFPs \cap (ScannedFPs \ IncomingFPs) = {}

\* C7: the findings table never holds two records of one fingerprint.
C7_OneRecordPerFingerprint ==
  \A r1, r2 \in findings : r1.fingerprint = r2.fingerprint => r1 = r2

\* Store succeeded on a fingerprint that had a record, next to another record
C7_Witness ==
  ret.op = "Store" /\ ret.existed /\ ~ret.err /\ ~ret.panic /\ Cardinality(findings) = 2

HasRow(rows, fp) == \E r \in rows : r.fingerprint = fp

\* C8: Store(f) on a fingerprint that has a record sets its last-seen and
\* severity to f's, clears its resolution timestamp and leaves its first-seen
\* and issue id as they were.
C8_UpsertFrame ==
  [][\A f \in ApiFindings :
       (Store(f, TRUE) /\ HasRow(findings, f.Fingerprint)) =>
         LET old == Get(findings, f.Fingerprint)
             new == Get(findings', f.Fingerprint)
         IN  /\ new.LastSeen = f.LastSeen
             /\ new.Severity = f.Severity
             /\ new.ResolvedAt = NULL
             /\ new.FirstSeen = old.FirstSeen
             /\ new.IssueID = old.IssueID]_vars

\* Store succeeded on a fingerprint that had a record, whose first-seen now
\* differs from its last-seen
C8_Witness ==
  /\ ret.op = "Store" /\ ret.existed /\ ~ret.err /\ ~ret.panic
  /\ \E r \in findings :
       r.fingerprint = ret.fp /\ r.first_seen # r.last_seen /\ r.resolved_at = NULL

\* C9 as stated: after Store(f) succeeds, whatever the store held before,
\* Get(f.fingerprint) equals f in every field, with a null resolution timestamp.
C9_RoundTrip ==
  [][\A f \in ApiFindings : Store(f, TRUE) => Get(findings', f.Fingerprint) = f]_vars

\* C9 amended: that holds when the store had no record of f.fingerprint; when it
\* had one, Get returns that record with f's severity and last-seen and a null
\* resolution timestamp, its other fields as they were.
C9_RoundTripFresh ==
  [][\A f \in ApiFindings :
       Store(f, TRUE) =>
         LET old == Get(findings, f.Fingerprint)
             new == Get(findings', f.Fingerprint)
         IN  IF HasRow(findings, f.Fingerprint)
             THEN new = [old EXCEPT !.LastSeen = f.LastSeen, !.Severity = f.Severity,
                                    !.ResolvedAt = NULL]
             ELSE new = f]_vars

\* Store succeeded on a fingerprint that had no record, and Get finds it
C9_Witness ==
  /\ ret.op = "Store" /\ ~ret.existed /\ ~ret.err /\ ~ret.panic
  /\ Get(findings, ret.fp) # NoFinding
  /\ Get(findings, ret.fp).FirstSeen # Get(findings, ret.fp).LastSeen

\* C10: the first-seen of a record never changes once the record exists,
\* whatever Store, MarkResolved or sync run comes next.
C10_FirstSeenFixed ==
  [][\A r \in findings : \A q \in findings' :
       q.fingerprint = r.fingerprint => q.first_seen = r.first_seen]_vars

\* a record re-stored by a sync run's Changed processing after it was created
C10_Witness ==
  /\ \E i \in DOMAIN calls : calls[i].op = "update" /\ calls[i].ok
  /\ \E r \in findings : r.first_seen < r.last_seen

\* a non-dry-run sync run that computed its diff has ended and none of its
\* steps failed
CleanRunDone == pc = "done" /\ DiffComputed /\ ~s.dryRun /\ fail = {}

\* C11: after a non-dry-run sync run in which every call succeeded, every
\* record whose fingerprint is in the run's filtered scan has last-seen equal
\* to the run's timestamp, whether or not its severity changed.
C11_LastSeenBumped ==
  CleanRunDone =>
    \A r \in findings : r.fingerprint \in IncomingFPs => r.last_seen = clock

\* C12: MarkResolved on a fingerprint that has no record returns the not-found
\* error (the UPDATE itself succeeding), creates no record and leaves every
\* record as it was.
C12_MarkResolvedNotFound ==
  [][\A fp \in ApiFingerprints : \A t \in 1..MaxTime :
       (MarkResolved(fp, t, TRUE) /\ ~HasRow(findings, fp)) =>
         /\ ret'.err
         /\ ~ret'.panic
         /\ findings' = findings]_vars

\* the fingerprints GetUnresolved returns
UnresolvedFPs(rows) == {g.Fingerprint : g \in GetUnresolved(rows)}

\* C13: after any Store or MarkResolved call, GetUnresolved returns exactly the
\* records that Get shows with a null resolution timestamp; a record is not in
\* it after a successful MarkResolved and is in it after a successful Store.
C13_GetUnresolved ==
  [][/\ GetUnresolved(findings') =
          {Get(findings', fp) : fp \in {q \in ApiFingerprints :
             HasRow(findings', q) /\ Get(findings', q).ResolvedAt = NULL}}
     /\ \A f \in ApiFindings :
          Store(f, TRUE) => f.Fingerprint \in UnresolvedFPs(findings')
     /\ \A fp \in ApiFingerprints : \A t \in 1..MaxTime :
          MarkResolved(fp, t, TRUE) => fp \notin UnresolvedFPs(findings')]_vars

\* a resolved record stored again, and so back among the unresolved ones
C13_Witness ==
  /\ ret.op = "Store" /\ ret.wasResolved /\ ~ret.err /\ ~ret.panic
  /\ ret.fp \in UnresolvedFPs(findings)

\* C14: no step of a dry-run sync run calls the tracker or changes the findings
\* table or the operation log.
C14_DryRunFrame ==
  [][(pc' # "idle" /\ s'.dryRun) =>
       /\ findings' = findings
       /\ operation_log' = operation_log
       /\ tracker' = tracker
       /\ calls' = <<>>]_vars

\* a finished dry-run with auto-close on whose diff had a new, a changed and a
\* resolved finding
C14_Witness ==
  /\ pc = "done" /\ s.dryRun /\ s.autoClose /\ DiffComputed
  /\ result.New # {} /\ result.Changed # {} /\ result.Resolved # {}
  /\ todo = EmptyDiff

\* how often the run called the tracker with that operation for that fingerprint
CallCount(op, fp) ==
  Cardinality({i \in DOMAIN calls : calls[i].op = op /\ calls[i].fp = fp})

\* a non-dry-run sync run that computed its diff has ended
RunDone == pc = "done" /\ DiffComputed /\ ~s.dryRun

\* C15: when a non-dry-run sync run ends, every New finding (that Transform
\* accepted) had exactly one create call, every Changed pair exactly one update
\* call and, with auto-close on, every Resolved record exactly one close call,
\* whichever of these calls failed; and there was no other call.
C15_AllAttempted ==
  RunDone =>
    /\ \A f \in result.New :
         CallCount("create", FindingFP(f)) = IF Validate(f) THEN 1 ELSE 0
    /\ \A c \in result.Changed : CallCount("update", FindingFP(c.Current)) = 1
    /\ \A g \in result.Resolved :
         CallCount("close", g.Fingerprint) = IF s.autoClose THEN 1 ELSE 0
    /\ Len(calls) = Cardinality({f \in result.New : Validate(f)})
                      + Cardinality(result.Changed)
                      + (IF s.autoClose THEN Cardinality(result.Resolved) ELSE 0)

\* a finished run whose first tracker call failed and was followed by two more
C15_Witness ==
  RunDone /\ Len(calls) = 3 /\ ~calls[1].ok /\ calls[2].ok /\ ~calls[3].ok

\* the run reached executeActions (its diff was not empty) and has ended
ActionPhaseDone == pc = "done" /\ DiffComputed /\ ~IsEmpty(result)

\* C16: a sync run that reached the action phase ends with the error status if
\* a transform, tracker call or store write of the run failed, and with
\* success otherwise.
C16_ExitStatus ==
  ActionPhaseDone =>
    exitCode = IF fail # {} THEN ExitSyncError ELSE ExitSyncSuccess

\* a run that ended in error because of nothing but a failed store write
C16_Witness ==
  ActionPhaseDone /\ fail = {"store"} /\ exitCode = ExitSyncError /\ Len(calls) > 1

\* C17: a sync invocation whose --min-severity is not critical, warning or
\* info ends with the usage-error status, whatever the other flags and
\* whether or not the tracker CLI is there.
C17_UsageError ==
  (pc = "done" /\ s.minSeverity \notin ValidSeverities) => exitCode = ExitSyncUsageError

\* C18: a sync run that reads malformed input (no valid JSON, or no findings
\* array) ends with the input-error status, calls no create, update or close
\* and leaves the findings table and the operation log as they were.
C18_MalformedInput ==
  [][(pc' = "done" /\ input'.read = "malformed") =>
       /\ exitCode' = ExitSyncInputError
       /\ calls' = <<>>
       /\ tracker' = tracker
       /\ findings' = findings
       /\ operation_log' = operation_log]_vars

\* a non-dry-run that read malformed input on a store that holds records
C18_Witness ==
  /\ pc = "done" /\ input.read = "malformed" /\ ~s.dryRun /\ s.autoClose
  /\ findings # {}
  /\ exitCode = ExitSyncInputError

\* C19: a sync run whose scan holds a finding that fails Validate ends with the
\* input-error status and without any tracker call.
C19_InvalidFinding ==
  (/\ pc = "done"
   /\ DiffComputed
   /\ \E i \in DOMAIN input.Findings : ~Validate(input.Findings[i]))
    => (exitCode = ExitSyncInputError /\ calls = <<>>)

\* the severities at or above min in the order critical < warning < info
KeptSeverities(min) ==
  IF min = "critical" THEN {"critical"}
  ELSE IF min = "warning" THEN {"critical", "warning"}
  ELSE {"critical", "warning", "info"}

\* C20: for min in {critical, warning, info}, FilterBySeverity(min) returns, in
\* input order, exactly the findings whose severity is at or above min:
\* critical for critical, critical and warning for warning, all three for info
\* (a severity outside the enum reads as info).
C20_FilterBySeverity ==
  (input.read = "report" /\ s.minSeverity \in ValidSeverities) =>
    LET AsEnum(sev) == IF sev \in ValidSeverities THEN sev ELSE "info"
        IsKept(f) == AsEnum(f.Severity) \in KeptSeverities(s.minSeverity)
    IN  FilterBySeverity(input.Findings, s.minSeverity) = SelectSeq(input.Findings, IsKept)

\* a scan of an info and a warning finding filtered at warning: one is dropped
C20_Witness ==
  /\ input.read = "report" /\ s.minSeverity = "warning"
  /\ Len(input.Findings) = 2
  /\ input.Findings[1].Severity = "info"
  /\ FilterBySeverity(input.Findings, s.minSeverity) = <<input.Findings[2]>>

\* the findings FilterBySeverity lets through
KeptFindings == {Incoming[i] : i \in DOMAIN Incoming}
\* the scanned findings whose severity is outside the enum
UnknownSeverityFindings ==
  {input.Findings[i] : i \in {j \in DOMAIN input.Findings :
                                 input.Findings[j].Severity \notin ValidSeverities}}

\* C21 as stated: a finding whose severity is not critical, warning or info is
\* kept by the filter under every minimum severity.
C21_UnknownKept ==
  (input.read = "report" /\ s.minSeverity \in ValidSeverities) =>
    UnknownSeverityFindings \subseteq KeptFindings

\* C21 amended: such a finding is ranked as info: it is kept when the minimum
\* severity is info and dropped when it is critical or warning.
C21_UnknownRankedInfo ==
  (input.read = "report" /\ s.minSeverity \in ValidSeverities) =>
    \A f \in UnknownSeverityFindings : f \in KeptFindings <=> s.minSeverity = "info"

\* a scan with a finding of unknown severity, filtered at critical: dropped
C21_Witness ==
  /\ input.read = "report" /\ s.minSeverity = "critical"
  /\ UnknownSeverityFindings # {}
  /\ KeptFindings # {}
  /\ UnknownSeverityFindings \cap KeptFindings = {}

\* C22: after `strung recover --fix` no operation-log entry is pending: the
\* ones that were are marked failed, whatever the store holds.
C22_RecoverFixesPending ==
  [][Recover(TRUE) => GetPendingOperations(operation_log') = {}]_vars

\* C23: when a sync run's tracker create succeeded and the store write that
\* follows it failed (the fingerprint has no record), GetOrphanedIssues returns
\* the created issue id.
C23_OrphanDetectable ==
  \A i \in DOMAIN calls :
    (calls[i].op = "create" /\ calls[i].ok /\ ~HasRow(findings, calls[i].fp)) =>
      calls[i].issue_id \in GetOrphanedIssues(operation_log, findings)

\* the issue ids callers log and store
ApiIssueIDs == {o.IssueID : o \in ApiOperations} \cup {f.IssueID : f \in SmallApiFindings}

\* C24: GetOrphanedIssues returns exactly the issue ids that some completed
\* create entry of the log names and that no finding record has.
C24_OrphanedIssues ==
  GetOrphanedIssues(operation_log, findings) =
    {id \in ApiIssueIDs :
       /\ \E k \in DOMAIN operation_log :
            /\ operation_log[k].operation = "create"
            /\ operation_log[k].status = "completed"
            /\ operation_log[k].issue_id = id
       /\ \A f \in GetAll(findings) : f.IssueID # id}

\* two completed create entries, one for the issue of a stored finding and one
\* for an issue no finding has
C24_Witness ==
  /\ findings # {}
  /\ Len(operation_log) = 2
  /\ \A k \in DOMAIN operation_log :
       operation_log[k].operation = "create" /\ operation_log[k].status = "completed"
  /\ operation_log[1].issue_id \in {r.issue_id : r \in findings}
  /\ GetOrphanedIssues(operation_log, findings) = {operation_log[2].issue_id}

\* C25: an entry logged with status pending is returned by
\* GetPendingOperations under the id LogOperation returned; after
\* UpdateOperationStatus(id, completed or failed) the entry of that id is not
\* returned any more, and every other entry has the status it had.
C25_PendingLifecycle ==
  [][/\ \A op \in ApiOperations :
          (LogOperation(op, TRUE) /\ op.Status = "pending") =>
            \E o \in GetPendingOperations(operation_log') :
              /\ o.ID = ret'.id
              /\ o = [ID |-> ret'.id, Operation |-> op.Operation,
                      Fingerprint |-> op.Fingerprint, IssueID |-> op.IssueID,
                      Status |-> "pending", Error |-> op.Error,
                      CreatedAt |-> op.CreatedAt]
     /\ \A id \in 0..MaxLogCalls : \A status \in {"completed", "failed"} :
          \A errorMsg \in {"", "operation failed"} :
            UpdateOperationStatus(id, status, errorMsg, TRUE) =>
              /\ \A o \in GetPendingOperations(operation_log') : o.ID # id
              /\ Len(operation_log') = Len(operation_log)
              /\ \A k \in DOMAIN operation_log :
                   operation_log[k].id # id =>
                     operation_log'[k].status = operation_log[k].status]_vars

\* UpdateOperationStatus marked one of two logged entries failed; the other one
\* is still pending
C25_Witness ==
  /\ ret.op = "UpdateOperationStatus" /\ ret.existed /\ ~ret.err
  /\ Len(operation_log) = 2
  /\ operation_log[ret.id].status = "failed"
  /\ \E o \in GetPendingOperations(operation_log) : o.ID # ret.id

\* two findings that differ at most in line number (and in what the
\* fingerprint does not read)
SameButLine(f, g) ==
  /\ f.File = g.File
  /\ f.Category = g.Category
  /\ f.Message = g.Message
  /\ f.CodeSnippet = g.CodeSnippet

\* C26: of two findings that differ only in line number, the fingerprints are
\* equal when the snippet is not empty and different when it is empty.
C26_LineDependence ==
  input.read = "report" =>
    \A i, j \in DOMAIN input.Findings :
      LET f == input.Findings[i]
          g == input.Findings[j]
      IN  (SameButLine(f, g) /\ f.Line # g.Line) =>
            IF f.CodeSnippet # <<>>
            THEN FindingFP(f) = FindingFP(g)
            ELSE FindingFP(f) # FindingFP(g)

\* a scan of two findings with a snippet that differ in line only: Diff keeps
\* one of them
C26_Witness ==
  /\ input.read = "report" /\ Len(input.Findings) = 2
  /\ SameButLine(input.Findings[1], input.Findings[2])
  /\ input.Findings[1].Line # input.Findings[2].Line
  /\ input.Findings[1].CodeSnippet # <<>>
  /\ result.New = {input.Findings[2]}

\* what is left of a snippet when letter case, white space around and inside
\* its lines and blank lines are set aside: its non-blank lines, each as its
\* lower-case words
WordLines(snippet) ==
  LET lines == Split(snippet, "\n")
  IN  DropEmpty([k \in DOMAIN lines |-> Fields(ToLower(lines[k]))])

\* C27: two findings with the same file, category and message and non-empty
\* snippets that differ only in letter case, white space or blank lines have
\* the same fingerprint; two findings that differ in category only have
\* different fingerprints.
C27_SnippetNormalization ==
  input.read = "report" =>
    \A i, j \in DOMAIN input.Findings :
      LET f == input.Findings[i]
          g == input.Findings[j]
      IN  /\ (/\ f.File = g.File /\ f.Category = g.Category /\ f.Message = g.Message
              /\ f.CodeSnippet # <<>> /\ g.CodeSnippet # <<>>
              /\ WordLines(f.CodeSnippet) = WordLines(g.CodeSnippet))
               => FindingFP(f) = FindingFP(g)
          /\ (/\ f.File = g.File /\ f.Message = g.Message /\ f.Line = g.Line
              /\ f.CodeSnippet = g.CodeSnippet
              /\ f.Category # g.Category)
               => FindingFP(f) # FindingFP(g)

OpPhase(op) == IF op = "create" THEN 1 ELSE IF op = "update" THEN 2 ELSE 3

\* C29: in the tracker calls of one sync run every create comes before every
\* update and every update before every close.
C29_PhaseOrder ==
  \A i, j \in DOMAIN calls : i < j => OpPhase(calls[i].op) <= OpPhase(calls[j].op)

\* a run that made a create, an update and a close call
C29_Witness ==
  /\ pc = "done" /\ Len(calls) = 3
  /\ calls[1].op = "create" /\ calls[2].op = "update" /\ calls[3].op = "close"

\* the create call a step of the New loop has just made, if any
CreateCalled == Len(calls') = Len(calls) + 1 /\ calls'[Len(calls')].op = "create"

\* the record of a fingerprint, as a set of rows
RowsOf(rows, fp) == {g \in rows : g.fingerprint = fp}

\* C30: for a New finding of a non-dry-run sync, a successful create leaves an
\* open record of its fingerprint with first-seen = last-seen = the run's
\* timestamp; a failed create writes and changes no record of it, and the loop
\* goes on with what is left. (Read for a Store that succeeds.)
C30_NewFindingHandling ==
  [][CreateCalled =>
       LET c == calls'[Len(calls')]
       IN
       /\ (c.ok /\ "store" \notin fail') => \E g \in RowsOf(findings', c.fp) :
                    g.resolved_at = NULL /\ g.first_seen = now /\ g.last_seen = now
       /\ ~c.ok => /\ RowsOf(findings', c.fp) = RowsOf(findings, c.fp)
                   /\ pc' = Advance(todo', s)]_vars

\* C30, what the code keeps: the record is open and last seen at the run's
\* timestamp, its first-seen being that of its first Store
C30_NewFindingReopened ==
  [][CreateCalled =>
       LET c == calls'[Len(calls')]
       IN
       /\ (c.ok /\ "store" \notin fail') =>
             \E g \in RowsOf(findings', c.fp) :
               g.resolved_at = NULL /\ g.last_seen = now /\ g.first_seen <= now
       /\ ~c.ok => /\ RowsOf(findings', c.fp) = RowsOf(findings, c.fp)
                   /\ pc' = Advance(todo', s)]_vars


\* the update call a step of the Changed loop has just made, if any
UpdateCalled == Len(calls') = Len(calls) + 1 /\ calls'[Len(calls')].op = "update"

\* the Changed pair of the run's diff a fingerprint belongs to
ChangeOf(fp) == CHOOSE ch \in result.Changed : FindingFP(ch.Current) = fp

\* the stored row of a fingerprint
RowOf(rows, fp) == CHOOSE g \in rows : g.fingerprint = fp

CloseCalled == Len(calls') = Len(calls) + 1 /\ calls'[Len(calls')].op = "close"

C32_WitnessOff ==
  /\ pc = "done" /\ ~s.autoClose /\ ~s.dryRun /\ result.Resolved # {}
  /\ \A r \in result.Resolved : RowOf(findings, r.Fingerprint).resolved_at = NULL


\* a Complete* or FailOperation has just returned without error, on a
\* transaction whose Begin* had logged an entry
Finished ==
  /\ ret'.op = "UpdateOperationStatus" /\ ~ret'.err
  /\ apiCalls' # apiCalls
  /\ transaction.status = "pending" /\ transaction.logged # 0
  /\ transaction'.status \in {"completed", "failed"}

\* C33: after Begin* and the Complete* of its kind (or FailOperation) the log
\* entry Begin* wrote has the transaction's status, completed or failed, and
\* GetPendingOperations no longer returns it.
C33_TransactionLogAgrees ==
  [][Finished =>
       /\ operation_log'[transaction.logged].status = transaction'.status
       /\ \A o \in GetPendingOperations(operation_log') : o.ID # transaction.logged]_vars


\* the positions of a fingerprint in the list handed to Diff
Occurrences(fp) == {i \in DOMAIN Incoming : FindingFP(Incoming[i]) = fp}
\* the fingerprints the list repeats
RepeatedFPs == {fp \in IncomingFPs : Cardinality(Occurrences(fp)) > 1}
\* the last position of a fingerprint
LastOccurrence(fp) == CHOOSE i \in Occurrences(fp) : \A j \in Occurrences(fp) : j <= i

\* C34: of several incoming findings with one fingerprint Diff uses the last:
\* the fingerprint is at most once in New and at most once in Changed, and
\* whether it is New, Changed or neither follows from the last one's severity.
C34_LastDuplicateWins ==
  AtDiff =>
    \A fp \in RepeatedFPs :
      LET last == Incoming[LastOccurrence(fp)]
          inNew == {f \in result.New : FindingFP(f) = fp}
          inChanged == {c \in result.Changed : FindingFP(c.Current) = fp}
      IN
      /\ Cardinality(inNew) <= 1 /\ Cardinality(inChanged) <= 1
      /\ IF fp \notin OpenFPs
         THEN inNew = {last} /\ inChanged = {}
         ELSE IF OpenRow(fp).severity # last.Severity
         THEN inNew = {} /\ inChanged = {[Previous |-> ScanRow(OpenRow(fp)), Current |-> last]}
         ELSE inNew = {} /\ inChanged = {}

\* a fingerprint comes twice with two severities, the first being the stored
\* one: the last makes it Changed
C34_Witness ==
  /\ AtDiff
  /\ \E fp \in RepeatedFPs \cap OpenFPs :
       /\ \E i \in Occurrences(fp) : Incoming[i].Severity = OpenRow(fp).severity
       /\ Incoming[LastOccurrence(fp)].Severity # OpenRow(fp).severity
       /\ \E c \in result.Changed : FindingFP(c.Current) = fp


\* the fingerprints whose stored record is resolved
ResolvedRowFPs == {r.fingerprint : r \in findings \ OpenRows}

\* C35: an incoming finding whose stored record is resolved is New for Diff,
\* not Changed and not left alone, whatever its severity.
C35_ResolvedReappearsAsNew ==
  AtDiff =>
    \A fp \in IncomingFPs \cap ResolvedRowFPs :
      /\ LastIncoming(fp) \in result.New
      /\ fp \notin ChangedFPs
      /\ fp \notin ResolvedFPs

\* a resolved record's fingerprint is scanned again, with another severity
\* than the stored one
C35_Witness ==
  /\ AtDiff
  /\ \E fp \in IncomingFPs \cap ResolvedRowFPs :
       RowOf(findings, fp).severity # LastIncoming(fp).Severity

\* the same with the stored severity
C35_WitnessSameSeverity ==
  /\ AtDiff
  /\ \E fp \in IncomingFPs \cap ResolvedRowFPs :
       RowOf(findings, fp).severity = LastIncoming(fp).Severity


\* the tracker issues created for a fingerprint
IssuesOf(fp) == {i \in tracker : i.fp = fp}
\* the one created last: `create` numbers its issues upwards
LatestIssue(fp) == CHOOSE i \in IssuesOf(fp) : \A j \in IssuesOf(fp) : j.id[2] <= i.id[2]

\* C36: as long as no tracker call and no store write of a non-dry-run sync has
\* failed, every open record carries the id of the issue created last for its
\* fingerprint, and that issue is open.
C36_IssueIDCurrent ==
  (failedEver = {} /\ fail = {} /\ ~s.dryRun) =>
    \A r \in OpenRows :
      /\ IssuesOf(r.fingerprint) # {}
      /\ r.issue_id = LatestIssue(r.fingerprint).id
      /\ LatestIssue(r.fingerprint).status = "open"


\* C37: when two sync runs on one store interleave, a fingerprint New to both
\* gets at most one tracker issue, and the issue id the store has for it is the
\* id of an issue that was created. (No tracker call or store write has failed;
\* the two runs are the only ones on the store.)
C37_OneIssuePerFinding ==
  failedEver = {} =>
    /\ \A i, j \in tracker : i.fp = j.fp => i = j
    /\ \A r \in findings : \E i \in tracker : i.id = r.issue_id /\ i.fp = r.fingerprint

\* what remains true: the stored issue id is the id of a created issue
C37_StoredIssueExists ==
  \A r \in findings : \E i \in tracker : i.id = r.issue_id /\ i.fp = r.fingerprint

\* both processes have created an issue for the same fingerprint
C37_TwoIssues ==
  \E i, j \in tracker : i.fp = j.fp /\ i # j


\* the run that has just finished found nothing to do
EmptyRun == pc = "done" /\ DiffComputed /\ IsEmpty(result)

\* in the same invocation repeated, a finding whose create failed has no open
\* record and is New again, and a record whose close failed is open and
\* Resolved again
FailedCallsRetried ==
  [][(pc = "done" /\ prev'.again) =>
       \A i \in DOMAIN calls :
         /\ (calls[i].op = "create" /\ ~calls[i].ok) =>
               calls[i].fp \notin OpenFPs /\ calls[i].fp \in {FindingFP(f) : f \in result'.New}
         /\ (calls[i].op = "close" /\ ~calls[i].ok) =>
               calls[i].fp \in OpenFPs /\ calls[i].fp \in {g.Fingerprint : g \in result'.Resolved}]_vars

\* C38: when the same scan is synced again and again and every tracker call
\* that fails succeeds in some later run, a run with an empty DiffResult comes
\* (and from any time on, comes again); until then a failed create or close is
\* retried by the next run.
C38_EventuallyEmpty == []<>EmptyRun /\ FailedCallsRetried

\* an empty run that came after a tracker failure, on a store with a record
C38_Witness ==
  /\ EmptyRun /\ prev.again /\ "tracker" \in failedEver
  /\ OpenRows # {} /\ findings # OpenRows


\* the string ComputeFingerprint hashes for a scanner finding
FindingPreHash(f) == PreHash(f.File, f.Category, f.Message, f.CodeSnippet, f.Line)

\* two findings agree in everything their kind of fingerprint is made of
SameHashedFields(f, g) ==
  \/ /\ f.CodeSnippet # <<>> /\ g.CodeSnippet # <<>>
     /\ f.File = g.File /\ f.Category = g.Category /\ f.Message = g.Message
     /\ normalizeCodeContext(f.CodeSnippet) = normalizeCodeContext(g.CodeSnippet)
  \/ /\ f.CodeSnippet = <<>> /\ g.CodeSnippet = <<>>
     /\ f.File = g.File /\ f.Line = g.Line /\ f.Category = g.Category
     /\ f.Message = g.Message

\* C39: two findings of a scan have the same hashed string only if they have
\* the same file, category, message and normalized context (both with a
\* snippet) or the same file, line, category and message (both without).
C39_PreHashInjective ==
  AtDiff =>
    \A i, j \in DOMAIN input.Findings :
      FindingPreHash(input.Findings[i]) = FindingPreHash(input.Findings[j]) =>
        SameHashedFields(input.Findings[i], input.Findings[j])


\* C40: no call of Store, Get or MarkResolved aborts the process, whatever the
\* length of the fingerprint: a storage error and an absent fingerprint come
\* back as an error value.
C40_ErrorPathsTotal ==
  ret.op \in {"Store", "Get", "MarkResolved"} => ~ret.panic

====
